---- MODULE Spec2Model ----
(***************************************************************************)
(* x402-grid-ui: the pay-per-request gate of /api/render-ui and            *)
(* /api/premium-ui, the /api/verify-payment endpoint, the templates they   *)
(* release and the X402PaymentButton client that pays and retries.         *)
(***************************************************************************)
EXTENDS Integers, Sequences, FiniteSets, TLC

VARIABLES
    chain,    \* the ledger the RPC node reads: signature -> transaction
    req,      \* the request the server is handling
    pc,       \* the handler's position in the request
    h,        \* the handler's local variables
    env,      \* the answers the facilitator and the RPC node gave this request
    resp,     \* the response of the request
    trace,    \* the steps the handler has executed for this request
    kept,     \* an earlier request, its answers and its outcome, for comparison
    cl,       \* the X402PaymentButton in the browser
    run,      \* two runs of a template generator on the same arguments
    call      \* an invocation of fetchWithPayment

serverVars == <<req, pc, h, env, resp, trace>>
outside == <<kept, cl, run, call>>
vars == <<chain, req, pc, h, env, resp, trace, kept, cl, run, call>>

(***************************************************************************)
(* JavaScript values                                                       *)
(***************************************************************************)
\* null / undefined: a header that is not sent, a field that is not there
Absent == "<absent>"

\* a string in a boolean context
Truthy(s) == s # Absent /\ s # ""

\* an optional number: <<>> is undefined, <<n>> is n, and <<lo, hi>> with hi > 0 is
\* hi * 2^32 + lo, a number past the 32 bits of an array length
NoNum == <<>>
Num(n) == <<n>>
TwoTo32 == <<0, 1>>

\* x || d for an optional number: undefined and 0 are falsy
OrElse(x, d) == IF x = NoNum \/ (Len(x) = 1 /\ x[1] = 0) THEN Num(d) ELSE x

\* Array.from({ length }, ...) throws a RangeError past the longest array, 2^32 - 1
ArrayFromThrows(length) == Len(length) = 2

\* ToLength of Array.from({ length: n }): a negative length is 0
ToLength(length) == IF length[1] < 0 THEN 0 ELSE length[1]

(***************************************************************************)
(* x402Config                                                              *)
(***************************************************************************)
payTo == "8MeWTYDip5SWVJf3wkvDKZw9BjSAWMXm5oAeELJ6HFM9"

RenderUi == "/api/render-ui"
PremiumUi == "/api/premium-ui"
NewMarkets == "https://grid.wtf/api/x402/v1/new-markets"
GatedEndpoints == {RenderUi, PremiumUi}

\* x402Config.prices[key]: the own keys hold lamports, a key Object.prototype
\* defines (toString, constructor, ...) yields a function, any other key undefined
PriceKeys == {RenderUi, PremiumUi, NewMarkets}
PrototypeKeys == {"toString", "constructor"}
\* a variant: the premium endpoint at twice the price
pricesPremiumDoubled(key) ==
    CASE key = RenderUi -> 500000
      [] key = PremiumUi -> 1000000
      [] key = NewMarkets -> 500000
      [] OTHER -> 0

prices(key) ==
    CASE key = RenderUi -> 500000
      [] key = PremiumUi -> 500000
      [] key = NewMarkets -> 500000
      [] OTHER -> 0

(***************************************************************************)
(* Solana: public keys, transactions, the RPC node                         *)
(***************************************************************************)
WalletKey == "walletKey"
OtherKey == "otherKey"
SystemProgram == "11111111111111111111111111111111"
BadKey == "not-a-key"

\* a variant: a constructor of keys that accepts every string
IsAnyString(s) == s = s

\* new PublicKey(s) throws unless s decodes to 32 bytes
PublicKeys == {payTo, WalletKey, OtherKey, SystemProgram}
IsPublicKey(s) == s \in PublicKeys

NoTx == [found |-> FALSE, err |-> FALSE, hasMeta |-> FALSE,
         accountKeys |-> <<>>, preBalances |-> <<>>, postBalances |-> <<>>]

\* the balance of every account before a transaction, and the fee its payer pays
StartBalance == 1000000000
Fee == 5000

\* SystemProgram.transfer({fromPubkey, toPubkey, lamports}) as the ledger records it:
\* the fee payer first, then the recipient, then the program
Transfer(from, to, lamports, failed) ==
    IF from = to
    THEN [found |-> TRUE, err |-> failed, hasMeta |-> TRUE,
          accountKeys |-> <<from, SystemProgram>>,
          preBalances |-> <<StartBalance, 1>>,
          postBalances |-> <<StartBalance - Fee, 1>>]
    ELSE [found |-> TRUE, err |-> failed, hasMeta |-> TRUE,
          accountKeys |-> <<from, to, SystemProgram>>,
          preBalances |-> <<StartBalance, StartBalance, 1>>,
          postBalances |-> IF failed
                           THEN <<StartBalance - Fee, StartBalance, 1>>
                           ELSE <<StartBalance - Fee - lamports, StartBalance + lamports, 1>>]

\* a transaction the node returns with meta: null
WithoutMeta(tx) == [tx EXCEPT !.hasMeta = FALSE, !.err = FALSE,
                              !.preBalances = <<>>, !.postBalances = <<>>]

\* the ledger before any client of this application pays: transactions of third
\* parties, one per case the on-chain check tells apart
ThirdPartySigs == {"sigUnknown", "sigFailed", "sigNoMeta", "sigElsewhere", "sigRefund",
                   "sigPaid0", "sigPaid474999", "sigPaid475000", "sigPaid500000"}
ClientSigs == {"sigClient1", "sigClient2"}
Sigs == ThirdPartySigs \cup ClientSigs

InitialLedger ==
    [s \in Sigs |->
        CASE s = "sigFailed" -> Transfer(WalletKey, payTo, 500000, TRUE)
          [] s = "sigNoMeta" -> WithoutMeta(Transfer(WalletKey, payTo, 500000, FALSE))
          [] s = "sigElsewhere" -> Transfer(WalletKey, OtherKey, 500000, FALSE)
          [] s = "sigRefund" -> Transfer(payTo, WalletKey, 500000, FALSE)
          [] s = "sigPaid0" -> Transfer(WalletKey, payTo, 0, FALSE)
          [] s = "sigPaid474999" -> Transfer(WalletKey, payTo, 474999, FALSE)
          [] s = "sigPaid475000" -> Transfer(WalletKey, payTo, 475000, FALSE)
          [] s = "sigPaid500000" -> Transfer(OtherKey, payTo, 500000, FALSE)
          [] OTHER -> NoTx]

\* what connection.getTransaction(signature) can do: reject, return null (the node
\* does not know the signature, or not yet), or return the transaction on the ledger
RpcThrows == [threw |-> TRUE, tx |-> NoTx]
RpcAnswers(signature) ==
    {RpcThrows, [threw |-> FALSE, tx |-> NoTx]}
        \cup (IF signature \in Sigs THEN {[threw |-> FALSE, tx |-> chain[signature]]} ELSE {})

\* accountKeys.staticAccountKeys.findIndex(key => key.equals(recipientPubkey)): the
\* first position (from 0) that holds the key, -1 when none does
RECURSIVE FindIndexFrom(_, _, _)
FindIndexFrom(keys, key, i) ==
    IF i > Len(keys) THEN -1
    ELSE IF keys[i] = key THEN i - 1
    ELSE FindIndexFrom(keys, key, i + 1)

findIndex(keys, key) == FindIndexFrom(keys, key, 1)

\* the 0.95 of the comparison, in hundredths
TolerancePercent == 95

\* a variant: the comparison written with > instead of >=
AmountAcceptedStrictly(amountTransferred, expectedAmount) ==
    amountTransferred * 100 > expectedAmount * TolerancePercent

\* amountTransferred >= expectedAmount * 0.95: for whole lamports, at least the
\* product rounded up
AmountAccepted(amountTransferred, expectedAmount) ==
    amountTransferred >= -((-(expectedAmount * TolerancePercent)) \div 100)

\* a variant: an expected amount that is not the advertised price
ExpectedAmountDoubled(endpoint) == 2 * prices(endpoint)

\* const expectedAmount = x402Config.prices[<the handler's own endpoint>]
ExpectedAmount(endpoint) == prices(endpoint)

\* a variant: the balance of the second account key, whoever it is
OnChainCheckAnyRecipient(endpoint, customPublicKey, rpc) ==
    IF rpc.threw THEN FALSE
    ELSE IF ~rpc.tx.found \/ (rpc.tx.hasMeta /\ rpc.tx.err) THEN FALSE
    ELSE IF ~IsPublicKey(customPublicKey) THEN FALSE
    ELSE IF rpc.tx.hasMeta /\ Len(rpc.tx.accountKeys) >= 2
         THEN AmountAccepted(rpc.tx.postBalances[2] - rpc.tx.preBalances[2],
                             ExpectedAmount(endpoint))
         ELSE FALSE

\* a variant: the X-Payment-PublicKey must be the signer of the transaction
OnChainCheckSigner(endpoint, customPublicKey, rpc) ==
    IF rpc.threw THEN FALSE
    ELSE IF ~rpc.tx.found \/ (rpc.tx.hasMeta /\ rpc.tx.err) THEN FALSE
    ELSE IF ~IsPublicKey(customPublicKey) THEN FALSE
    ELSE IF rpc.tx.accountKeys[1] # customPublicKey THEN FALSE
    ELSE LET recipientIndex == findIndex(rpc.tx.accountKeys, payTo)
         IN  IF recipientIndex # -1 /\ rpc.tx.hasMeta
             THEN AmountAccepted(rpc.tx.postBalances[recipientIndex + 1]
                                   - rpc.tx.preBalances[recipientIndex + 1],
                                 ExpectedAmount(endpoint))
             ELSE FALSE

\* a variant: a signature that was accepted before is refused
OnChainCheckOnce(endpoint, customPublicKey, rpc) ==
    IF rpc.threw THEN FALSE
    ELSE IF ~rpc.tx.found \/ (rpc.tx.hasMeta /\ rpc.tx.err) THEN FALSE
    ELSE IF ~IsPublicKey(customPublicKey) THEN FALSE
    ELSE IF kept.set /\ kept.verified /\ kept.req.sig = req.sig THEN FALSE
    ELSE LET recipientIndex == findIndex(rpc.tx.accountKeys, payTo)
         IN  IF recipientIndex # -1 /\ rpc.tx.hasMeta
             THEN AmountAccepted(rpc.tx.postBalances[recipientIndex + 1]
                                   - rpc.tx.preBalances[recipientIndex + 1],
                                 ExpectedAmount(endpoint))
             ELSE FALSE

\* the manual verification of the custom header triple, from the answer of
\* getTransaction on: any throw inside it leaves verified = false
OnChainCheck(endpoint, customPublicKey, rpc) ==
    IF rpc.threw THEN FALSE
    ELSE IF ~rpc.tx.found \/ (rpc.tx.hasMeta /\ rpc.tx.err) THEN FALSE
    ELSE IF ~IsPublicKey(customPublicKey) THEN FALSE
    ELSE LET recipientIndex == findIndex(rpc.tx.accountKeys, payTo)
         IN  IF recipientIndex # -1 /\ rpc.tx.hasMeta
             THEN AmountAccepted(rpc.tx.postBalances[recipientIndex + 1]
                                   - rpc.tx.preBalances[recipientIndex + 1],
                                 ExpectedAmount(endpoint))
             ELSE FALSE

(***************************************************************************)
(* The templates: generateUI and generatePremiumUI                         *)
(***************************************************************************)
\* the config of a request body: not an object (undefined, null), or an object
\* with any of the fields the templates read
NoConfig == [isObject |-> FALSE, columns |-> NoNum, gap |-> NoNum, itemCount |-> NoNum,
             title |-> Absent, content |-> Absent, actions |-> <<>>]
EmptyConfig == [NoConfig EXCEPT !.isObject = TRUE]

\* a function inherited from Object.prototype: what templates[componentType] is
\* for componentType = 'toString'; JSON.stringify leaves such a member out
InheritedFunction == [type |-> "<function>"]
NoUI == [type |-> "<none>"]

\* Math.random(): one of a few streams of draws, each draw in thousandths of [0, 1)
MaxSeed == 2
Seeds == 0..MaxSeed
Draw(seed, k) == (seed * 389 + k * 137) % 1000

GridItems(n) ==
    [i \in 1..ToLength(n) |->
        [id |-> i, title |-> <<"Grid Item ", i>>,
         description |-> "This is a dynamically rendered grid item",
         color |-> <<"hsl", ((i - 1) * 60) % 360, 70, 50>>]]

DefaultActions == << [label |-> "Action 1", variant |-> "primary"],
                     [label |-> "Action 2", variant |-> "secondary"] >>

DashboardWidgets ==
    << [type |-> "stat", label |-> "Total Users", value |-> "1,234", trend |-> "+12%"],
       [type |-> "stat", label |-> "Revenue", value |-> "$45.6K", trend |-> "+8%"],
       [type |-> "stat", label |-> "Conversions", value |-> "89%", trend |-> "+3%"],
       [type |-> "chart", label |-> "Activity", data |-> <<30, 40, 35, 50, 49, 60, 70>>] >>

BasicKeys == {"grid", "card", "dashboard"}

uiTemplates(config) ==
    [k \in BasicKeys |->
        CASE k = "grid" ->
               [type |-> "grid",
                layout |-> [columns |-> OrElse(config.columns, 3),
                            gap |-> OrElse(config.gap, 4),
                            items |-> GridItems(OrElse(config.itemCount, 6))]]
          [] k = "card" ->
               [type |-> "card",
                title |-> IF Truthy(config.title) THEN config.title ELSE "Dynamic Card",
                content |-> IF Truthy(config.content) THEN config.content
                            ELSE "This is a dynamically rendered card component",
                actions |-> IF config.actions = <<>> THEN DefaultActions
                            ELSE config.actions[1]]
          [] k = "dashboard" ->
               [type |-> "dashboard", widgets |-> DashboardWidgets]]

\* building the templates throws when the grid's item array cannot be made,
\* whatever componentType asks for
generateUIThrows(config) == ArrayFromThrows(OrElse(config.itemCount, 6))

\* uiTemplates[componentType] || uiTemplates.grid
generateUI(componentType, config) ==
    IF componentType \in BasicKeys THEN uiTemplates(config)[componentType]
    ELSE IF componentType \in PrototypeKeys THEN InheritedFunction
    ELSE uiTemplates(config)["grid"]

\* (4 + Math.random()).toFixed(1), in tenths
Rating(draw) == (4000 + draw + 50) \div 100
\* Math.floor(Math.random() * 10000)
RandomValue(draw) == (draw * 10000) \div 1000
\* ['Active', 'Pending', 'Inactive'][Math.floor(Math.random() * 3)]
RandomStatus(draw) == <<"Active", "Pending", "Inactive">>[((draw * 3) \div 1000) + 1]

\* a variant: the id of an item drawn at random too
PremiumItemsDrawnIds(n, seed) ==
    [i \in 1..ToLength(n) |->
        [id |-> Draw(seed, i), title |-> <<"Premium Item ", i>>,
         description |-> "Premium UI with advanced features",
         image |-> <<"https://picsum.photos/seed/", i, "/400/300">>,
         color |-> <<"hsl", ((i - 1) * 30) % 360, 80, 60>>,
         features |-> <<"Feature A", "Feature B", "Feature C">>,
         rating |-> Rating(Draw(seed, i))]]

\* Array.from({ length: itemCount || 12 }, (_, i) => ({ id: i + 1, ...,
\* rating: (4 + Math.random()).toFixed(1) }))
PremiumItems(n, seed) ==
    [i \in 1..ToLength(n) |->
        [id |-> i, title |-> <<"Premium Item ", i>>,
         description |-> "Premium UI with advanced features",
         image |-> <<"https://picsum.photos/seed/", i, "/400/300">>,
         color |-> <<"hsl", ((i - 1) * 30) % 360, 80, 60>>,
         features |-> <<"Feature A", "Feature B", "Feature C">>,
         rating |-> Rating(Draw(seed, i))]]

\* Array.from({ length: 20 }, ...)
TableRows == 20
\* the rows draw after the items of the advanced grid have drawn theirs
TableData(drawn, seed) ==
    [i \in 1..TableRows |->
        [id |-> i, name |-> <<"Record ", i>>,
         value |-> RandomValue(Draw(seed, drawn + 2 * i - 1)),
         status |-> RandomStatus(Draw(seed, drawn + 2 * i))]]

TableColumns ==
    << [key |-> "id", label |-> "ID", sortable |-> TRUE],
       [key |-> "name", label |-> "Name", sortable |-> TRUE],
       [key |-> "value", label |-> "Value", sortable |-> TRUE],
       [key |-> "status", label |-> "Status", filterable |-> TRUE] >>

AnalyticsSections ==
    << [title |-> "Key Metrics",
        widgets |-> << [type |-> "metric", label |-> "Total Revenue", value |-> "$123,456", change |-> "+23.5%"],
                       [type |-> "metric", label |-> "Active Users", value |-> "8,765", change |-> "+12.3%"],
                       [type |-> "metric", label |-> "Conversion Rate", value |-> "3.45%", change |-> "+0.8%"],
                       [type |-> "metric", label |-> "Avg. Order Value", value |-> "$89.23", change |-> "+5.2%"] >>],
       [title |-> "Performance Charts",
        charts |-> << [type |-> "line", label |-> "Revenue Trend", data |-> <<>>],
                      [type |-> "bar", label |-> "User Growth", data |-> <<>>],
                      [type |-> "pie", label |-> "Traffic Sources", data |-> <<>>] >>] >>

PremiumKeys == {"advanced-grid", "data-table", "analytics"}

premiumTemplates(config, seed) ==
    [k \in PremiumKeys |->
        CASE k = "advanced-grid" ->
               [type |-> "advanced-grid",
                layout |-> [columns |-> OrElse(config.columns, 4),
                            rows |-> "auto",
                            gap |-> Num(6),
                            items |-> PremiumItems(OrElse(config.itemCount, 12), seed)],
                animations |-> TRUE,
                interactions |-> <<"hover", "click", "drag">>]
          [] k = "data-table" ->
               [type |-> "data-table",
                columns |-> TableColumns,
                data |-> TableData(ToLength(OrElse(config.itemCount, 12)), seed),
                features |-> <<"sorting", "filtering", "pagination", "export">>]
          [] k = "analytics" ->
               [type |-> "analytics-dashboard", sections |-> AnalyticsSections]]

generatePremiumUIThrows(config) == ArrayFromThrows(OrElse(config.itemCount, 12))

\* premiumTemplates[componentType] || premiumTemplates['advanced-grid']
generatePremiumUI(componentType, config, seed) ==
    IF componentType \in PremiumKeys THEN premiumTemplates(config, seed)[componentType]
    ELSE IF componentType \in PrototypeKeys THEN InheritedFunction
    ELSE premiumTemplates(config, seed)["advanced-grid"]

(***************************************************************************)
(* Requests and responses                                                  *)
(***************************************************************************)
\* a request body: text that is not JSON, the JSON value null, or a JSON value
\* whose members the handlers destructure
InvalidBody == [kind |-> "invalid", componentType |-> Absent, config |-> NoConfig,
                signature |-> Absent, publicKey |-> Absent, endpoint |-> Absent]
NullBody == [InvalidBody EXCEPT !.kind = "null"]
UIBody(componentType, config) ==
    [InvalidBody EXCEPT !.kind = "object", !.componentType = componentType, !.config = config]

NoReq == [endpoint |-> Absent, xPayment |-> Absent, sig |-> Absent, pub |-> Absent,
          ts |-> Absent, body |-> InvalidBody]

NoBody == [keys |-> {}, paymentRequired |-> FALSE, price |-> 0, network |-> Absent,
           asset |-> Absent, payTo |-> Absent, error |-> Absent, success |-> FALSE,
           ui |-> NoUI, tier |-> Absent, message |-> Absent, verified |-> FALSE,
           signature |-> Absent]
NoHeaders == [protected |-> Absent, paymentRequired |-> Absent, paymentVerified |-> Absent]
NoResp == [status |-> 0, body |-> NoBody, headers |-> NoHeaders]

\* NextResponse.json({ error }, { status })
ErrorResponse(status, error) ==
    [status |-> status,
     body |-> [NoBody EXCEPT !.keys = {"error"}, !.error = error],
     headers |-> NoHeaders]

\* a variant: the price advertised in SOL instead of lamports
AdvertisedPriceInSol(endpoint) == prices(endpoint) \div 1000000000

\* const price = x402Config.prices[<the handler's own endpoint>] of the 402 body
AdvertisedPrice(endpoint) == prices(endpoint)

\* x402.create402Response(paymentRequirements): status 402 and the protocol's body
Create402Status == 402
Create402BodyKeys == {"x402Version", "accepts"}

\* the 402 of a request that carries no payment: the protocol's body with the
\* fields the client reads written over it
PaymentRequiredResponse(endpoint) ==
    [status |-> Create402Status,
     body |-> [NoBody EXCEPT
                 !.keys = Create402BodyKeys
                            \cup {"paymentRequired", "price", "network", "asset", "payTo"},
                 !.paymentRequired = TRUE,
                 !.price = AdvertisedPrice(endpoint),
                 !.network = "solana",
                 !.asset = "SOL",
                 !.payTo = payTo],
     headers |-> [NoHeaders EXCEPT !.protected = "true", !.paymentRequired = "true"]]

\* the 402 of a payment that did not verify
VerificationFailedResponse == ErrorResponse(402, "Invalid payment - verification failed")

\* a variant: the catch of the handler answering like a failed verification
InternalErrorAsRejection == ErrorResponse(402, "Invalid payment - verification failed")

\* the catch of the handler
InternalErrorResponse == ErrorResponse(500, "Internal server error")

\* the 200 of a verified request; JSON.stringify drops a member that is a function
RenderedResponse(endpoint, ui) ==
    [status |-> 200,
     body |-> [NoBody EXCEPT
                 !.keys = (IF ui = InheritedFunction THEN {} ELSE {"ui"})
                            \cup {"success", "message"}
                            \cup (IF endpoint = PremiumUi THEN {"tier"} ELSE {}),
                 !.success = TRUE,
                 !.ui = IF ui = InheritedFunction THEN NoUI ELSE ui,
                 !.tier = IF endpoint = PremiumUi THEN "premium" ELSE Absent,
                 !.message = IF endpoint = PremiumUi THEN "Premium UI rendered successfully"
                             ELSE "UI rendered successfully"],
     headers |-> [NoHeaders EXCEPT !.protected = "true", !.paymentVerified = "true"]]

(***************************************************************************)
(* POST /api/render-ui and POST /api/premium-ui                            *)
(***************************************************************************)
NoLocals == [paymentHeader |-> Absent, hasCustomPayment |-> FALSE,
             componentType |-> Absent, config |-> NoConfig,
             requirements |-> FALSE, verified |-> FALSE, ui |-> NoUI]

NoEnv == [requirements |-> "-", verify |-> "-", rpcCalled |-> FALSE, rpc |-> RpcThrows,
          settle |-> "-", seed |-> 0]

\* a variant: the template generated before the payment is looked at
ThenGenerateFirst(position) ==
    CASE position = "extract" -> "parse"
      [] position = "parse" -> "requirements"
      [] position = "requirements" -> "generate"
      [] position = "verify" -> "check"
      [] position = "generate" -> "settle"
      [] position = "settle" -> "respond"

\* the statements of the handler in the order they are written: what follows each
Then(position) ==
    CASE position = "extract" -> "parse"
      [] position = "parse" -> "requirements"
      [] position = "requirements" -> "gate"
      [] position = "verify" -> "check"
      [] position = "generate" -> "settle"
      [] position = "settle" -> "respond"

\* a request reaches the handler
Arrive(r) ==
    /\ req' = r
    /\ pc' = IF r.endpoint \in GatedEndpoints THEN "extract" ELSE "vp-parse"
    /\ h' = NoLocals
    /\ env' = NoEnv
    /\ resp' = NoResp
    /\ trace' = <<>>

\* return NextResponse.json(...)
Return(response) ==
    /\ resp' = response
    /\ pc' = "done"

\* a variant: any one of the three headers counts as a payment
hasAnyCustomHeader(r) == Truthy(r.sig) \/ Truthy(r.pub) \/ Truthy(r.ts)

\* customSignature && customPublicKey && customTimestamp
hasCustomPayment(r) == Truthy(r.sig) /\ Truthy(r.pub) /\ Truthy(r.ts)

\* 1. x402.extractPayment(req.headers), then the three custom headers
ExtractPayment ==
    /\ pc = "extract"
    /\ req.endpoint \in GatedEndpoints
    /\ h' = [h EXCEPT !.paymentHeader = req.xPayment,
                      !.hasCustomPayment = hasCustomPayment(req)]
    /\ trace' = Append(trace, "header")
    /\ pc' = Then("extract")
    /\ UNCHANGED <<chain, req, env, resp>>
    /\ UNCHANGED outside

\* 2. await req.json() and the destructuring of the body: a body that is not JSON
\* and the body null both throw
ParseBody ==
    /\ pc = "parse"
    /\ IF req.body.kind # "object"
       THEN /\ Return(InternalErrorResponse)
            /\ trace' = trace \o <<"body", "respond">>
            /\ UNCHANGED h
       ELSE /\ h' = [h EXCEPT !.componentType = req.body.componentType,
                              !.config = req.body.config]
            /\ trace' = Append(trace, "body")
            /\ pc' = Then("parse")
            /\ UNCHANGED resp
    /\ UNCHANGED <<chain, req, env>>
    /\ UNCHANGED outside

\* 3. await x402.createPaymentRequirements(...): it asks the facilitator, and throws
\* when the facilitator does not answer
CreatePaymentRequirements ==
    /\ pc = "requirements"
    /\ \E outcome \in {"ok", "throws"} :
         /\ env' = [env EXCEPT !.requirements = outcome]
         /\ IF outcome = "throws"
            THEN /\ Return(InternalErrorResponse)
                 /\ trace' = trace \o <<"requirements", "respond">>
                 /\ UNCHANGED h
            ELSE /\ h' = [h EXCEPT !.requirements = TRUE]
                 /\ trace' = Append(trace, "requirements")
                 /\ pc' = Then("requirements")
                 /\ UNCHANGED resp
    /\ UNCHANGED <<chain, req>>
    /\ UNCHANGED outside

\* if (!paymentHeader && !hasCustomPayment)
NoPayment(paymentHeader, custom) == ~Truthy(paymentHeader) /\ ~custom

\* the 402 with the payment requirements, or on to the verification
Gate ==
    /\ pc = "gate"
    /\ IF NoPayment(h.paymentHeader, h.hasCustomPayment)
       THEN /\ Return(PaymentRequiredResponse(req.endpoint))
            /\ trace' = Append(trace, "respond")
       ELSE /\ pc' = "verify"
            /\ UNCHANGED <<resp, trace>>
    /\ UNCHANGED <<chain, req, h, env>>
    /\ UNCHANGED outside

\* a variant: the custom triple looked at first
VerifyPathCustomFirst(paymentHeader, custom) ==
    IF custom THEN "custom"
    ELSE IF Truthy(paymentHeader) THEN "standard"
    ELSE "none"

\* if (paymentHeader) ... else if (hasCustomPayment) ...
VerifyPath(paymentHeader, custom) ==
    IF Truthy(paymentHeader) THEN "standard"
    ELSE IF custom THEN "custom"
    ELSE "none"

\* 4. await x402.verifyPayment(paymentHeader, paymentRequirements): the facilitator
\* decides, or the call throws
VerifyStandard ==
    /\ pc = "verify"
    /\ VerifyPath(h.paymentHeader, h.hasCustomPayment) = "standard"
    /\ \E answer \in {"valid", "invalid", "throws"} :
         /\ env' = [env EXCEPT !.verify = answer]
         /\ IF answer = "throws"
            THEN /\ Return(InternalErrorResponse)
                 /\ trace' = trace \o <<"verify-standard", "respond">>
                 /\ UNCHANGED h
            ELSE /\ h' = [h EXCEPT !.verified = (answer = "valid")]
                 /\ trace' = Append(trace, "verify-standard")
                 /\ pc' = Then("verify")
                 /\ UNCHANGED resp
    /\ UNCHANGED <<chain, req>>
    /\ UNCHANGED outside

\* 4'. the manual verification: connection.getTransaction(customSignature) and the
\* check of its answer, inside a try of its own
VerifyCustom ==
    /\ pc = "verify"
    /\ VerifyPath(h.paymentHeader, h.hasCustomPayment) = "custom"
    /\ \E rpc \in RpcAnswers(req.sig) :
         /\ env' = [env EXCEPT !.rpcCalled = TRUE, !.rpc = rpc]
         /\ h' = [h EXCEPT !.verified = OnChainCheck(req.endpoint, req.pub, rpc)]
    /\ trace' = Append(trace, "verify-custom")
    /\ pc' = Then("verify")
    /\ UNCHANGED <<chain, req, resp>>
    /\ UNCHANGED outside

\* a variant: the result of the verification is not read
AfterVerificationUnchecked(verified) == "generate"

\* if (!verified) return 402; otherwise the business logic is next
AfterVerification(verified) == IF ~verified THEN "reject" ELSE "generate"

CheckVerified ==
    /\ pc = "check"
    /\ IF AfterVerification(h.verified) = "reject"
       THEN /\ Return(VerificationFailedResponse)
            /\ trace' = Append(trace, "respond")
       ELSE /\ pc' = "generate"
            /\ UNCHANGED <<resp, trace>>
    /\ UNCHANGED <<chain, req, h, env>>
    /\ UNCHANGED outside

\* 5. generateUI(componentType, config) / generatePremiumUI(componentType, config)
Generate ==
    /\ pc = "generate"
    /\ IF req.endpoint = RenderUi
       THEN /\ UNCHANGED env
            /\ IF generateUIThrows(h.config)
               THEN /\ Return(InternalErrorResponse)
                    /\ trace' = trace \o <<"generate", "respond">>
                    /\ UNCHANGED h
               ELSE /\ h' = [h EXCEPT !.ui = generateUI(h.componentType, h.config)]
                    /\ trace' = Append(trace, "generate")
                    /\ pc' = Then("generate")
                    /\ UNCHANGED resp
       ELSE \E seed \in Seeds :
            /\ env' = [env EXCEPT !.seed = seed]
            /\ IF generatePremiumUIThrows(h.config)
               THEN /\ Return(InternalErrorResponse)
                    /\ trace' = trace \o <<"generate", "respond">>
                    /\ UNCHANGED h
               ELSE /\ h' = [h EXCEPT !.ui = generatePremiumUI(h.componentType, h.config, seed)]
                    /\ trace' = Append(trace, "generate")
                    /\ pc' = Then("generate")
                    /\ UNCHANGED resp
    /\ UNCHANGED <<chain, req>>
    /\ UNCHANGED outside

\* a variant: every verified payment is settled, whatever its path
SettleEveryPayment ==
    /\ pc = "settle"
    /\ \E outcome \in {"ok", "throws"} :
         /\ env' = [env EXCEPT !.settle = outcome]
         /\ IF outcome = "throws"
            THEN /\ Return(InternalErrorResponse)
                 /\ trace' = trace \o <<"settle", "respond">>
            ELSE /\ trace' = Append(trace, "settle")
                 /\ pc' = Then("settle")
                 /\ UNCHANGED resp
    /\ UNCHANGED <<chain, req, h>>
    /\ UNCHANGED outside

\* 6. if (paymentHeader) await x402.settlePayment(...): only the standard header
\* is settled, and the call may throw
Settle ==
    /\ pc = "settle"
    /\ IF Truthy(h.paymentHeader)
       THEN \E outcome \in {"ok", "throws"} :
            /\ env' = [env EXCEPT !.settle = outcome]
            /\ IF outcome = "throws"
               THEN /\ Return(InternalErrorResponse)
                    /\ trace' = trace \o <<"settle", "respond">>
               ELSE /\ trace' = Append(trace, "settle")
                    /\ pc' = Then("settle")
                    /\ UNCHANGED resp
       ELSE /\ pc' = Then("settle")
            /\ UNCHANGED <<env, resp, trace>>
    /\ UNCHANGED <<chain, req, h>>
    /\ UNCHANGED outside

\* 7. the 200 with the template
Respond ==
    /\ pc = "respond"
    /\ Return(RenderedResponse(req.endpoint, h.ui))
    /\ trace' = Append(trace, "respond")
    /\ UNCHANGED <<chain, req, h, env>>
    /\ UNCHANGED outside

(***************************************************************************)
(* POST /api/verify-payment                                                *)
(***************************************************************************)
VerifyPayment == "/api/verify-payment"

VerifyBody(signature, publicKey, endpoint) ==
    [InvalidBody EXCEPT !.kind = "object", !.signature = signature,
                        !.publicKey = publicKey, !.endpoint = endpoint]

\* if (!expectedPrice): the value x402Config.prices[endpoint] in a boolean context
HasPrice(key) == key \in PrototypeKeys \/ prices(key) # 0

\* verifyPaymentTransaction(signature, connection, _expectedAmount, _expectedRecipient),
\* from the answer of getTransaction on
verifyPaymentTransaction(rpc, expectedAmount, expectedRecipient) ==
    IF rpc.threw THEN FALSE
    ELSE IF ~rpc.tx.found \/ ~rpc.tx.hasMeta THEN FALSE
    ELSE IF rpc.tx.err THEN FALSE
    ELSE TRUE

VerifiedResponse(signature) ==
    [status |-> 200,
     body |-> [NoBody EXCEPT !.keys = {"verified", "message", "signature", "timestamp"},
                             !.verified = TRUE,
                             !.message = "Payment verified successfully",
                             !.signature = signature],
     headers |-> NoHeaders]

NotVerifiedResponse ==
    [status |-> 402,
     body |-> [NoBody EXCEPT !.keys = {"verified", "error"},
                             !.verified = FALSE,
                             !.error = "Payment verification failed"],
     headers |-> NoHeaders]

\* await request.json(), the destructuring, the two checks of the fields
VerifyPaymentParse ==
    /\ pc = "vp-parse"
    /\ IF req.body.kind # "object"
       THEN /\ Return(ErrorResponse(500, "Verification failed"))
            /\ trace' = trace \o <<"body", "respond">>
       ELSE IF ~Truthy(req.body.signature) \/ ~Truthy(req.body.publicKey)
                 \/ ~Truthy(req.body.endpoint)
       THEN /\ Return(ErrorResponse(400, "Missing required fields"))
            /\ trace' = trace \o <<"body", "respond">>
       ELSE IF ~HasPrice(req.body.endpoint)
       THEN /\ Return(ErrorResponse(400, "Invalid endpoint"))
            /\ trace' = trace \o <<"body", "respond">>
       ELSE /\ pc' = "vp-verify"
            /\ trace' = Append(trace, "body")
            /\ UNCHANGED resp
    /\ UNCHANGED <<chain, req, h, env>>
    /\ UNCHANGED outside

\* await verifyPaymentTransaction(signature, connection, expectedPrice, x402Config.payTo)
VerifyPaymentCheck ==
    /\ pc = "vp-verify"
    /\ \E rpc \in RpcAnswers(req.body.signature) :
         /\ env' = [env EXCEPT !.rpcCalled = TRUE, !.rpc = rpc]
         /\ h' = [h EXCEPT !.verified =
                     verifyPaymentTransaction(rpc, prices(req.body.endpoint), payTo)]
         /\ Return(IF verifyPaymentTransaction(rpc, prices(req.body.endpoint), payTo)
                   THEN VerifiedResponse(req.body.signature)
                   ELSE NotVerifiedResponse)
    /\ trace' = trace \o <<"verify-transaction", "respond">>
    /\ UNCHANGED <<chain, req>>
    /\ UNCHANGED outside

(***************************************************************************)
(* Any sequence of requests to the three endpoints                         *)
(***************************************************************************)
RequestTypes == {Absent, "grid", "data-table", "toString"}
\* the largest itemCount a request asks for that Array.from accepts
MaxItemCount == 2
RequestConfigs ==
    {NoConfig,
     [EmptyConfig EXCEPT !.itemCount = Num(MaxItemCount)],
     [EmptyConfig EXCEPT !.itemCount = TwoTo32]}
RequestBodies ==
    {InvalidBody, NullBody}
        \cup {UIBody(t, c) : t \in RequestTypes, c \in RequestConfigs}

GatedRequests ==
    [endpoint : GatedEndpoints,
     xPayment : {Absent, "x402-payment"},
     sig : {Absent} \cup ThirdPartySigs,
     pub : {Absent, WalletKey, OtherKey, BadKey},
     ts : {Absent, "", "1700000000000", "1700000000001"},
     body : RequestBodies]

VerifyRequests ==
    [endpoint : {VerifyPayment},
     xPayment : {Absent},
     sig : {Absent},
     pub : {Absent},
     ts : {Absent},
     body : {InvalidBody, NullBody}
              \cup {VerifyBody(s, k, e) :
                      s \in {Absent, ""} \cup ThirdPartySigs,
                      k \in {Absent, WalletKey, BadKey},
                      e \in {Absent, RenderUi, PremiumUi, NewMarkets,
                             "/api/unknown", "toString"}}]

NewRequest ==
    /\ pc = "idle"
    /\ \E r \in GatedRequests : Arrive(r)
    /\ UNCHANGED chain
    /\ UNCHANGED outside

NewVerifyRequest ==
    /\ pc = "idle"
    /\ \E r \in VerifyRequests : Arrive(r)
    /\ UNCHANGED chain
    /\ UNCHANGED outside

\* the response is sent and the invocation is over: none of it is kept
Forget ==
    /\ req' = NoReq
    /\ pc' = "idle"
    /\ h' = NoLocals
    /\ env' = NoEnv
    /\ resp' = NoResp
    /\ trace' = <<>>

Complete ==
    /\ pc = "done"
    /\ cl.cpc \notin {"first", "retry"}
    /\ Forget
    /\ UNCHANGED chain
    /\ UNCHANGED outside

(***************************************************************************)
(* A request seen again: the same proof sent a second time                 *)
(***************************************************************************)
NoKept == [set |-> FALSE, req |-> NoReq, env |-> NoEnv, status |-> 0, verified |-> FALSE]

\* the answers of the facilitator and of the node, without the draws of Math.random
Answers(e) == [e EXCEPT !.seed = 0]

\* the same payment headers
SameProof(r1, r2) ==
    /\ r1.xPayment = r2.xPayment
    /\ r1.sig = r2.sig
    /\ r1.pub = r2.pub
    /\ r1.ts = r2.ts

\* the custom header triple of the kept request was accepted
KeptAccepted == kept.set /\ kept.verified /\ kept.env.rpcCalled

\* the requests of which one is kept: every payment header, fewer bodies
ReplayRequests ==
    {r \in GatedRequests :
        /\ r.ts \in {Absent, "1700000000000"}
        /\ r.pub # OtherKey
        /\ r.body \in {InvalidBody, UIBody("grid", NoConfig),
                        UIBody("grid", [EmptyConfig EXCEPT !.itemCount = TwoTo32])}}

FirstRequest ==
    /\ pc = "idle"
    /\ ~kept.set
    /\ \E r \in ReplayRequests : Arrive(r)
    /\ UNCHANGED chain
    /\ UNCHANGED outside

Remember ==
    /\ pc = "done"
    /\ ~kept.set
    /\ kept' = [set |-> TRUE, req |-> req, env |-> Answers(env), status |-> resp.status,
                verified |-> h.verified]
    /\ Forget
    /\ UNCHANGED <<chain, cl, run, call>>

\* the kept request once more; an accepted triple also with any endpoint and body
Replay ==
    /\ pc = "idle"
    /\ kept.set
    /\ \E r \in ReplayRequests :
         /\ SameProof(r, kept.req)
         /\ r # kept.req => KeptAccepted
         /\ Arrive(r)
    /\ UNCHANGED chain
    /\ UNCHANGED outside

(***************************************************************************)
(* Two requests that differ in one header or in the endpoint               *)
(***************************************************************************)
\* the requests of which one is kept: every custom triple, or the standard header
PairRequests ==
    {r \in GatedRequests :
        /\ r.ts # ""
        /\ r.body \in {UIBody("grid", NoConfig),
                        UIBody("grid", [EmptyConfig EXCEPT !.itemCount = TwoTo32])}
        /\ Truthy(r.xPayment) => r.sig = Absent /\ r.pub = Absent /\ r.ts = Absent}

OnlyTimestampDiffers(r1, r2) ==
    /\ r1.ts # r2.ts /\ Truthy(r1.ts) /\ Truthy(r2.ts)
    /\ r1 = [r2 EXCEPT !.ts = r1.ts]
OnlyPublicKeyDiffers(r1, r2) ==
    /\ r1.pub # r2.pub /\ Truthy(r1.pub) /\ Truthy(r2.pub)
    /\ r1 = [r2 EXCEPT !.pub = r1.pub]
OnlyEndpointDiffers(r1, r2) ==
    /\ r1.endpoint # r2.endpoint
    /\ r1 = [r2 EXCEPT !.endpoint = r1.endpoint]

FirstOfPair ==
    /\ pc = "idle"
    /\ ~kept.set
    /\ \E r \in PairRequests : Arrive(r)
    /\ UNCHANGED chain
    /\ UNCHANGED outside

\* the kept request with another timestamp, another public key or the other endpoint
SecondOfPair ==
    /\ pc = "idle"
    /\ kept.set
    /\ \E r \in PairRequests :
         /\ IF OnlyTimestampDiffers(r, kept.req) THEN TRUE
            ELSE IF OnlyPublicKeyDiffers(r, kept.req) THEN TRUE
            ELSE OnlyEndpointDiffers(r, kept.req)
         /\ Arrive(r)
    /\ UNCHANGED chain
    /\ UNCHANGED outside

(***************************************************************************)
(* X402PaymentButton: the client of the 402 flow                           *)
(***************************************************************************)
\* how often the button is clicked
MaxClicks == 2
NoCallbacks == <<>>
OnSuccess(data, signature) ==
    [kind |-> "onSuccess", data |-> data, signature |-> signature, message |-> Absent]
OnError(message) ==
    [kind |-> "onError", data |-> NoBody, signature |-> Absent, message |-> message]

\* the component as mounted: its props, the wallet, its state; handleRequest is at
\* cpc, signature is the local of processPayment, delivered says that the pending
\* fetch reached the server, retried is the response to the retry with what the
\* facilitator and the node answered while it was made
ButtonProps ==
    [endpoint : GatedEndpoints,
     componentType : {"grid", "analytics"},
     config : {NoConfig, [EmptyConfig EXCEPT !.itemCount = TwoTo32]}]
Wallets ==
    {[connected |-> FALSE, publicKey |-> Absent],
     [connected |-> TRUE, publicKey |-> WalletKey],
     [connected |-> TRUE, publicKey |-> payTo]}
Mounted(props, wallet) ==
    [cpc |-> "idle", endpoint |-> props.endpoint, componentType |-> props.componentType,
     config |-> props.config, connected |-> wallet.connected,
     publicKey |-> wallet.publicKey, loading |-> FALSE, paymentRequired |-> NoBody,
     status |-> "", lastSignature |-> "", signature |-> Absent, delivered |-> FALSE,
     clicks |-> 0, alerts |-> 0, callbacks |-> NoCallbacks,
     retried |-> [status |-> 0, body |-> NoBody, env |-> NoEnv],
     fetches |-> <<>>, first |-> 0, terms |-> NoBody, sent |-> <<>>,
     confirmed |-> FALSE]

\* the props of the button for the external endpoint of the markets
ExternalProps ==
    [endpoint : {NewMarkets}, componentType : {"markets"}, config : {NoConfig}]

\* endpoint.startsWith('http://') || endpoint.startsWith('https://')
isExternalEndpoint(endpoint) == endpoint = NewMarkets

\* const method = isExternalEndpoint ? 'GET' : 'POST'
Method(endpoint) == IF isExternalEndpoint(endpoint) THEN "GET" ELSE "POST"

\* ...(method === 'POST' ? { body: JSON.stringify({ componentType, config }) } : {})
FetchBody(c) ==
    IF Method(c.endpoint) = "POST" THEN UIBody(c.componentType, c.config)
    ELSE [InvalidBody EXCEPT !.kind = "none"]

\* a call of fetch as the button makes it
ButtonFetch(c, signature, publicKey, timestamp) ==
    [endpoint |-> c.endpoint, method |-> Method(c.endpoint), sig |-> signature,
     pub |-> publicKey, ts |-> timestamp, body |-> FetchBody(c)]

\* paymentDetails.payTo.trim()
Trim(s) == IF s = " " THEN "" ELSE s

\* the request fetch() sends: JSON.stringify({ componentType, config }) and, on the
\* retry, the three payment headers
\* a variant: a retry that carries no signature
ButtonRequestUnsigned(c, signature, publicKey, timestamp) ==
    [endpoint |-> c.endpoint, xPayment |-> Absent, sig |-> Absent, pub |-> publicKey,
     ts |-> timestamp, body |-> FetchBody(c)]

ButtonRequest(c, signature, publicKey, timestamp) ==
    [endpoint |-> c.endpoint, xPayment |-> Absent, sig |-> signature, pub |-> publicKey,
     ts |-> timestamp, body |-> FetchBody(c)]

\* a request reaches the server of an external endpoint
Ask(r) ==
    /\ req' = r
    /\ pc' = "external"
    /\ h' = NoLocals
    /\ env' = NoEnv
    /\ resp' = NoResp
    /\ trace' = <<>>

\* the request goes to the handler of this repository or to the external server
Send(r) == IF isExternalEndpoint(r.endpoint) THEN Ask(r) ELSE Arrive(r)

\* what an external server may answer: the markets, another 200, an error, or a 402
\* with any payTo and price
MarketsBody == [NoBody EXCEPT !.keys = {"markets", "meta"}]
ExternalResponses ==
    {[status |-> 200, body |-> MarketsBody, headers |-> NoHeaders],
     [status |-> 200, body |-> [NoBody EXCEPT !.keys = {"message"}, !.message = "ok"],
      headers |-> NoHeaders],
     ErrorResponse(500, "Internal server error")}
        \cup {[status |-> 402,
               body |-> [NoBody EXCEPT !.keys = {"price", "payTo"}, !.price = 250000,
                                       !.payTo = to],
               headers |-> NoHeaders] : to \in {Absent, "", " ", BadKey, OtherKey}}

ExternalAnswers ==
    /\ pc = "external"
    /\ \E response \in ExternalResponses : Return(response)
    /\ trace' = <<"respond">>
    /\ UNCHANGED <<chain, req, h, env>>
    /\ UNCHANGED outside

\* if (isExternalEndpoint && data.markets): the markets wrapped as a UIResponse
AsUIResponse(endpoint, data) ==
    IF isExternalEndpoint(endpoint) /\ "markets" \in data.keys
    THEN [NoBody EXCEPT !.keys = {"success", "ui", "tier", "message"},
                        !.success = TRUE, !.ui = [type |-> "markets"],
                        !.tier = "premium",
                        !.message = "Markets data loaded successfully"]
    ELSE data

\* the catch and the finally of handleRequest
\* a variant: the catch block without the call of onError
CaughtSilently(c, message) ==
    [c EXCEPT !.paymentRequired = NoBody, !.status = "",
              !.loading = FALSE, !.cpc = "idle"]

\* a variant: the catch block without the finally block after it
CaughtStillLoading(c, message) ==
    [c EXCEPT !.paymentRequired = NoBody, !.status = "",
              !.callbacks = Append(@, OnError(message)),
              !.cpc = "idle"]

Caught(c, message) ==
    [c EXCEPT !.paymentRequired = NoBody, !.status = "",
              !.callbacks = Append(@, OnError(message)),
              !.loading = FALSE, !.cpc = "idle"]

\* the button is clicked: handleRequest up to its first fetch
Click ==
    /\ cl.cpc = "idle" /\ ~cl.loading
    /\ cl.clicks < MaxClicks
    /\ pc = "idle"
    /\ IF ~cl.connected \/ ~Truthy(cl.publicKey)
       THEN /\ cl' = [cl EXCEPT !.alerts = @ + 1, !.clicks = @ + 1]
            /\ UNCHANGED serverVars
       ELSE \E delivered \in BOOLEAN :
              /\ cl' = [cl EXCEPT !.loading = TRUE, !.status = "Requesting service...",
                                  !.cpc = "first", !.clicks = @ + 1,
                                  !.delivered = delivered, !.signature = Absent,
                                  !.callbacks = NoCallbacks,
                                  !.retried = [status |-> 0, body |-> NoBody, env |-> NoEnv],
                                  !.fetches = <<ButtonFetch(cl, Absent, Absent, Absent)>>,
                                  !.first = 0, !.terms = NoBody, !.sent = <<>>,
                                  !.confirmed = FALSE]
              /\ IF delivered
                 THEN Send(ButtonRequest(cl, Absent, Absent, Absent))
                 ELSE UNCHANGED serverVars
    /\ UNCHANGED <<chain, kept, run, call>>

\* a fetch that rejects
FetchRejects ==
    /\ cl.cpc \in {"first", "retry"} /\ ~cl.delivered
    /\ cl' = Caught(cl, "Failed to fetch")
    /\ UNCHANGED serverVars
    /\ UNCHANGED <<chain, kept, run, call>>

\* the response to the first fetch, and processPayment up to sendTransaction
ReceiveFirst ==
    /\ cl.cpc = "first" /\ cl.delivered
    /\ pc = "done"
    /\ LET seen == [cl EXCEPT !.first = resp.status]
           got == [seen EXCEPT !.terms = resp.body, !.paymentRequired = resp.body]
       IN  cl' = IF resp.status = 402
                 THEN IF ~Truthy(resp.body.payTo)
                      THEN Caught(got, "Payment recipient address is not configured")
                      ELSE IF Trim(resp.body.payTo) = ""
                      THEN Caught(got, "Payment recipient address is not configured")
                      ELSE IF ~IsPublicKey(resp.body.payTo)
                      THEN Caught(got, "Invalid payment recipient address")
                      ELSE [got EXCEPT !.status = "Waiting for wallet approval...",
                                       !.cpc = "wallet"]
                 ELSE IF resp.status \in 200..299
                 THEN [seen EXCEPT !.callbacks =
                                      Append(@, OnSuccess(AsUIResponse(cl.endpoint, resp.body),
                                                          Absent)),
                                   !.loading = FALSE, !.cpc = "idle"]
                 ELSE Caught(seen, "Request failed")
    /\ Forget
    /\ UNCHANGED <<chain, kept, run, call>>

\* await sendTransaction(transaction, connection)
SendTransaction ==
    /\ cl.cpc = "wallet"
    /\ \E approved \in BOOLEAN :
         LET asked == [cl EXCEPT !.sent = Append(@, [from |-> cl.publicKey,
                                                     to |-> cl.paymentRequired.payTo,
                                                     lamports |-> cl.paymentRequired.price])]
         IN  IF approved
             THEN \E signature \in ClientSigs :
                    /\ chain[signature] = NoTx /\ cl.lastSignature # signature
                    /\ \A other \in ClientSigs :
                         (chain[other] = NoTx /\ cl.lastSignature # other)
                            => ~(other = "sigClient1" /\ signature = "sigClient2")
                    /\ cl' = [asked EXCEPT !.signature = signature,
                                           !.status = "Confirming transaction...",
                                           !.cpc = "confirming"]
             ELSE cl' = Caught(asked, "Transaction cancelled")
    /\ UNCHANGED serverVars
    /\ UNCHANGED <<chain, kept, run, call>>

\* await connection.confirmTransaction(signature, 'confirmed'), whose result is not
\* read, and the fetch of the retry
ConfirmTransaction ==
    /\ cl.cpc = "confirming"
    /\ \E outcome \in {"confirmed", "failed", "throws"}, delivered \in BOOLEAN :
         IF outcome = "throws"
         THEN /\ delivered
              /\ cl' = Caught(cl, "Transaction was not confirmed")
              /\ UNCHANGED chain
              /\ UNCHANGED serverVars
         ELSE /\ chain' = [chain EXCEPT ![cl.signature] =
                             Transfer(cl.publicKey, cl.paymentRequired.payTo,
                                      cl.paymentRequired.price, outcome = "failed")]
              /\ cl' = [cl EXCEPT !.cpc = "retry", !.delivered = delivered,
                                  !.confirmed = TRUE,
                                  !.fetches = Append(@, ButtonFetch(cl, cl.signature,
                                                        cl.publicKey, "1700000000000"))]
              /\ IF delivered
                 THEN Send(ButtonRequest(cl, cl.signature, cl.publicKey, "1700000000000"))
                 ELSE UNCHANGED serverVars
    /\ UNCHANGED <<kept, run, call>>

\* the response to the retry
ReceiveRetry ==
    /\ cl.cpc = "retry" /\ cl.delivered
    /\ pc = "done"
    /\ LET seen == [cl EXCEPT !.retried = [status |-> resp.status, body |-> resp.body,
                                           env |-> env]]
       IN  cl' = IF resp.status \in 200..299
                 THEN [seen EXCEPT !.callbacks =
                                      Append(@, OnSuccess(AsUIResponse(cl.endpoint, resp.body),
                                                          cl.signature)),
                                   !.paymentRequired = NoBody,
                                   !.lastSignature = cl.signature,
                                   !.loading = FALSE, !.cpc = "idle"]
                 ELSE Caught(seen, "Failed to fetch after payment")
    /\ Forget
    /\ UNCHANGED <<chain, kept, run, call>>

(***************************************************************************)
(* fetchWithPayment(url, options, onPaymentRequired)                       *)
(***************************************************************************)
\* headers as name-value pairs; options.headers is absent, a plain object, a
\* Headers instance or an array of pairs (HeadersInit)
CallerHeaders ==
    {{<<"Content-Type", "application/json">>},
     {<<"Content-Type", "application/json">>, <<"X-Payment-Signature", "stale">>}}
HeadersInits ==
    {[kind |-> "none", entries |-> {}]}
        \cup [kind : {"record", "Headers", "pairs"}, entries : CallerHeaders]

\* the headers a fetch sends for a HeadersInit
Sent(headers) == headers.entries

\* { ...options?.headers }: the own enumerable properties of the value: the
\* entries of a plain object, the indices of an array, none of a Headers instance
Spread(headers) ==
    CASE headers.kind = "record" -> headers.entries
      [] headers.kind = "pairs" ->
           IF Cardinality(headers.entries) = 1
           THEN {<<"0", "Content-Type,application/json">>}
           ELSE {<<"0", "Content-Type,application/json">>,
                 <<"1", "X-Payment-Signature,stale">>}
      [] OTHER -> {}

\* { ...a, ...b }: a later property replaces an earlier one of the same name
Merge(a, b) == {x \in a : \A y \in b : y[1] # x[1]} \cup b

Proofs ==
    [signature : {"sigPaid500000"}, publicKey : {WalletKey},
     timestamp : {"1700000000000", "1700000000001"}]
NoProof == [signature |-> Absent, publicKey |-> Absent, timestamp |-> Absent]

\* the three headers of the retry
ProofHeaders(proof) ==
    {<<"X-Payment-Signature", proof.signature>>,
     <<"X-Payment-PublicKey", proof.publicKey>>,
     <<"X-Payment-Timestamp", proof.timestamp>>}

\* the retry: fetch(url, { ...options, headers: { ...options?.headers, <the three> } })
RetryOptions(options, proof) ==
    [options EXCEPT !.headers =
        [kind |-> "record", entries |-> Merge(Spread(options.headers), ProofHeaders(proof))]]

Rejected == 0
FetchAnswers == {Rejected, 200, 402, 500}

\* an invocation: its arguments, the fetches it has made and their answers, the
\* calls of onPaymentRequired, and how it ended
Invocations ==
    [fpc : {"start"}, url : {RenderUi}, 
     options : [method : {"POST"}, headers : HeadersInits],
     hasHandler : BOOLEAN, fetches : {<<>>}, answers : {<<>>}, handlerCalls : {0},
     proof : {NoProof}, ended : {"-"}, returned : {0}]

Fetched(c, url, options, answer) ==
    [c EXCEPT !.fetches = Append(@, [url |-> url, method |-> options.method,
                                       headers |-> Sent(options.headers)]),
              !.answers = Append(@, answer)]

Throws(c) == [c EXCEPT !.fpc = "done", !.ended = "threw"]

\* const response = await fetch(url, options); a response that is not 402 is returned
FetchFirst ==
    /\ call.fpc = "start"
    /\ \E answer \in FetchAnswers :
         LET c == Fetched(call, call.url, call.options, answer)
         IN  call' = IF answer = Rejected THEN Throws(c)
                     ELSE IF answer = 402 THEN [c EXCEPT !.fpc = "json"]
                     ELSE [c EXCEPT !.fpc = "done", !.ended = "returned", !.returned = 1]
    /\ UNCHANGED <<chain, serverVars, kept, cl, run>>

\* await response.json(); if (onPaymentRequired)
ReadPaymentDetails ==
    /\ call.fpc = "json"
    /\ \E parsed \in BOOLEAN :
         call' = IF ~parsed THEN Throws(call)
                 ELSE IF ~call.hasHandler THEN Throws(call)
                 ELSE [call EXCEPT !.fpc = "handler"]
    /\ UNCHANGED <<chain, serverVars, kept, cl, run>>

\* const proof = await onPaymentRequired(paymentDetails); if (proof)
OnPaymentRequired ==
    /\ call.fpc = "handler"
    /\ \E result \in {"proof", "null", "throws"} :
         IF result = "proof"
         THEN \E proof \in Proofs :
                call' = [call EXCEPT !.handlerCalls = @ + 1, !.proof = proof,
                                     !.fpc = "retry"]
         ELSE call' = Throws([call EXCEPT !.handlerCalls = @ + 1])
    /\ UNCHANGED <<chain, serverVars, kept, cl, run>>

\* return fetch(url, ...): the retry, whose response is the result
FetchRetry ==
    /\ call.fpc = "retry"
    /\ \E answer \in FetchAnswers :
         LET c == Fetched(call, call.url, RetryOptions(call.options, call.proof), answer)
         IN  call' = IF answer = Rejected THEN Throws(c)
                     ELSE [c EXCEPT !.fpc = "done", !.ended = "returned", !.returned = 2]
    /\ UNCHANGED <<chain, serverVars, kept, cl, run>>

(***************************************************************************)
(* Two runs of a generator on the same arguments                           *)
(***************************************************************************)
RangeError == [type |-> "<RangeError>"]

\* what a call of the endpoint's generator returns, or that it threw
Generated(endpoint, componentType, config, seed) ==
    IF endpoint = RenderUi
    THEN IF generateUIThrows(config) THEN RangeError
         ELSE generateUI(componentType, config)
    ELSE IF generatePremiumUIThrows(config) THEN RangeError
         ELSE generatePremiumUI(componentType, config, seed)

UITypes == {Absent, "grid", "card", "dashboard", "advanced-grid", "data-table",
            "analytics", "markets", "toString"}
UIConfigs ==
    {NoConfig, EmptyConfig,
     [EmptyConfig EXCEPT !.itemCount = TwoTo32],
     [EmptyConfig EXCEPT !.columns = Num(5), !.gap = Num(0)],
     [EmptyConfig EXCEPT !.title = "Test Card", !.content = "",
                         !.actions = << << [label |-> "Go", variant |-> "primary"] >> >>]}
        \cup {[EmptyConfig EXCEPT !.itemCount = Num(n)] : n \in -1..MaxItemCount}

FirstRun ==
    /\ run.phase = "args"
    /\ \E seed \in Seeds :
         run' = [run EXCEPT !.phase = "once",
                            !.first = Generated(run.endpoint, run.componentType,
                                                run.config, seed)]
    /\ UNCHANGED <<chain, req, pc, h, env, resp, trace, kept, cl, call>>

SecondRun ==
    /\ run.phase = "once"
    /\ \E seed \in Seeds :
         run' = [run EXCEPT !.phase = "twice",
                            !.second = Generated(run.endpoint, run.componentType,
                                                 run.config, seed)]
    /\ UNCHANGED <<chain, req, pc, h, env, resp, trace, kept, cl, call>>

(***************************************************************************)
(* Specifications                                                          *)
(***************************************************************************)
NoClient == [cpc |-> "off"]
NoRun == [phase |-> "off"]
NoCall == [fpc |-> "off"]

Idle ==
    /\ req = NoReq
    /\ pc = "idle"
    /\ h = NoLocals
    /\ env = NoEnv
    /\ resp = NoResp
    /\ trace = <<>>

Init ==
    /\ chain = InitialLedger
    /\ Idle
    /\ kept = NoKept
    /\ cl = NoClient
    /\ run = NoRun
    /\ call = NoCall

Next ==
    \/ NewRequest
    \/ NewVerifyRequest
    \/ ExtractPayment
    \/ ParseBody
    \/ CreatePaymentRequirements
    \/ Gate
    \/ VerifyStandard
    \/ VerifyCustom
    \/ CheckVerified
    \/ Generate
    \/ Settle
    \/ Respond
    \/ VerifyPaymentParse
    \/ VerifyPaymentCheck
    \/ Complete

\* the server under any sequence of requests
Spec == Init /\ [][Next]_vars

NextReplay ==
    \/ FirstRequest
    \/ ExtractPayment
    \/ ParseBody
    \/ CreatePaymentRequirements
    \/ Gate
    \/ VerifyStandard
    \/ VerifyCustom
    \/ CheckVerified
    \/ Generate
    \/ Settle
    \/ Respond
    \/ Complete
    \/ Remember
    \/ Replay

\* the gated handlers under requests of which one is kept and sent again
SpecReplay == Init /\ [][NextReplay]_vars

NextPair ==
    \/ FirstOfPair
    \/ ExtractPayment
    \/ ParseBody
    \/ CreatePaymentRequirements
    \/ Gate
    \/ VerifyStandard
    \/ VerifyCustom
    \/ CheckVerified
    \/ Generate
    \/ Settle
    \/ Respond
    \/ Complete
    \/ Remember
    \/ SecondOfPair

\* the gated handlers under pairs of requests that differ in one place
SpecPair == Init /\ [][NextPair]_vars

InitFlow ==
    /\ chain = InitialLedger
    /\ Idle
    /\ kept = NoKept
    /\ run = NoRun
    /\ call = NoCall
    /\ \E props \in ButtonProps, wallet \in Wallets : cl = Mounted(props, wallet)

\* what the server and the awaited calls of the client do
Settles ==
    \/ ExtractPayment
    \/ ParseBody
    \/ CreatePaymentRequirements
    \/ Gate
    \/ VerifyCustom
    \/ CheckVerified
    \/ Generate
    \/ Settle
    \/ Respond
    \/ FetchRejects
    \/ ReceiveFirst
    \/ SendTransaction
    \/ ConfirmTransaction
    \/ ReceiveRetry

NextFlow ==
    \/ Click
    \/ Settles

\* the button and the gated handlers; every awaited call settles
SpecFlow == InitFlow /\ [][NextFlow]_vars /\ WF_vars(Settles)

InitFetch ==
    /\ chain = InitialLedger
    /\ Idle
    /\ kept = NoKept
    /\ cl = NoClient
    /\ run = NoRun
    /\ call \in Invocations

NextFetch ==
    \/ FetchFirst
    \/ ReadPaymentDetails
    \/ OnPaymentRequired
    \/ FetchRetry

\* fetchWithPayment against any server
SpecFetch == InitFetch /\ [][NextFetch]_vars

InitButton ==
    /\ chain = InitialLedger
    /\ Idle
    /\ kept = NoKept
    /\ run = NoRun
    /\ call = NoCall
    /\ \E props \in ButtonProps \cup ExternalProps, wallet \in Wallets :
         cl = Mounted(props, wallet)

\* what the servers and the awaited calls of the button do
SettlesAnywhere ==
    \/ Settles
    \/ ExternalAnswers

NextButton ==
    \/ Click
    \/ SettlesAnywhere

\* the button against the handlers of this repository and against an external
\* server; every awaited call settles
SpecButton == InitButton /\ [][NextButton]_vars /\ WF_vars(SettlesAnywhere)

InitUI ==
    /\ chain = InitialLedger
    /\ Idle
    /\ kept = NoKept
    /\ cl = NoClient
    /\ call = NoCall
    /\ run \in [phase : {"args"}, endpoint : GatedEndpoints, componentType : UITypes,
                config : UIConfigs, first : {NoUI}, second : {NoUI}]

NextUI ==
    \/ FirstRun
    \/ SecondRun

\* the generators called twice on every argument
SpecUI == InitUI /\ [][NextUI]_vars

(***************************************************************************)
(* Properties of the gated handlers                                        *)
(***************************************************************************)
\* the request sends no payment: no standard header, none of the custom three
NoPaymentSent(r) ==
    r.xPayment = Absent /\ r.sig = Absent /\ r.pub = Absent /\ r.ts = Absent

\* the request is one to /api/render-ui or /api/premium-ui
Gated == req.endpoint \in GatedEndpoints

\* the handler took the custom path and asked the node for the transaction
OnCustomPath == Gated /\ env.rpcCalled

\* the payment terms a client needs, in a body
HasTerms(body) == {"price", "network", "asset", "payTo"} \subseteq body.keys

\* the 402 of the protocol: the terms of the endpoint and the two headers, no template
IsPaymentRequired(r, response) ==
    /\ response.status = 402
    /\ HasTerms(response.body)
    /\ "paymentRequired" \in response.body.keys /\ response.body.paymentRequired = TRUE
    /\ response.body.price = prices(r.endpoint)
    /\ response.body.network = "solana"
    /\ response.body.asset = "SOL"
    /\ response.body.payTo = payTo
    /\ response.headers.protected = "true"
    /\ response.headers.paymentRequired = "true"
    /\ "ui" \notin response.body.keys

\* the position of the treasury among the static account keys, and what the
\* transaction added to its balance
TreasuryListed(tx) == \E i \in 1..Len(tx.accountKeys) : tx.accountKeys[i] = payTo
TreasuryPosition(tx) ==
    CHOOSE i \in 1..Len(tx.accountKeys) :
        /\ tx.accountKeys[i] = payTo
        /\ \A j \in 1..(i - 1) : tx.accountKeys[j] # payTo
TreasuryDelta(tx) == tx.postBalances[TreasuryPosition(tx)] - tx.preBalances[TreasuryPosition(tx)]

\* C1: a response with status 200 that carries a ui payload is produced only if the
\* payment of that same request was verified: on the standard path the facilitator
\* answered isValid = true, on the custom path the on-chain check of the node's
\* answer set verified = true. No response of any other status carries a ui payload.
C1_UiOnlyAfterVerifiedPayment ==
    /\ ("ui" \in resp.body.keys \/ resp.body.ui # NoUI) => Gated /\ resp.status = 200
    /\ Gated /\ resp.status = 200 =>
         /\ h.verified
         /\ \/ Truthy(req.xPayment) /\ env.verify = "valid" /\ ~env.rpcCalled
            \/ /\ ~Truthy(req.xPayment) /\ hasCustomPayment(req)
               /\ env.rpcCalled /\ ~env.rpc.threw /\ env.rpc.tx.found
               /\ env.verify = "-"

C1_Witness ==
    /\ resp.status = 200 /\ "ui" \in resp.body.keys
    /\ OnCustomPath

\* C2 as claimed: a request with a well-formed JSON body and no payment is answered
\* with the 402 that carries the payment terms of the endpoint.
C2_UnpaidGets402 ==
    (Gated /\ pc = "done" /\ req.body.kind # "invalid" /\ NoPaymentSent(req))
        => IsPaymentRequired(req, resp)

\* C2 amended: a request whose body is a JSON value other than null and that sends no
\* payment is answered, when createPaymentRequirements returns, with status 402, the
\* terms paymentRequired = true, price = the configured price of the endpoint,
\* network = 'solana', asset = 'SOL', payTo = the treasury, the headers
\* X-X402-Protected and X-Payment-Required 'true', and no ui payload.
\* When the body is the JSON value null or createPaymentRequirements throws, the
\* answer is the 500 of the handler's catch.
C2_UnpaidGets402WhenRequirementsBuilt ==
    (Gated /\ pc = "done" /\ req.body.kind # "invalid" /\ NoPaymentSent(req)) =>
        IF req.body.kind = "object" /\ env.requirements = "ok"
        THEN IsPaymentRequired(req, resp)
        ELSE resp = InternalErrorResponse

C2_Witness ==
    /\ Gated /\ pc = "done" /\ req.body.kind = "object" /\ NoPaymentSent(req)
    /\ env.requirements = "ok" /\ resp.status = 402 /\ req.endpoint = PremiumUi

C4_Case ==
    /\ OnCustomPath /\ ~env.rpc.threw
    /\ env.rpc.tx.found /\ env.rpc.tx.hasMeta /\ ~env.rpc.tx.err
    /\ TreasuryListed(env.rpc.tx)

C6_Every402CarriesTerms ==
    Gated /\ resp.status = 402 => HasTerms(resp.body)

\* the order of the steps of a request
Rank(step) ==
    CASE step = "header" -> 1
      [] step = "body" -> 2
      [] step = "requirements" -> 3
      [] step \in {"verify-standard", "verify-custom"} -> 4
      [] step = "generate" -> 5
      [] step = "settle" -> 6
      [] step = "respond" -> 7

Did(step) == \E i \in 1..Len(trace) : trace[i] = step
DidVerify == Did("verify-standard") \/ Did("verify-custom")

\* C9: the steps of a request run in the order header, (body,) requirements, verify,
\* generate, (settle,) respond, none of them twice and verification by one path
\* only; a step runs only after the steps before it have run, so the body is read
\* and the requirements are built after the headers were examined and the template
\* is generated after verification; a finished request has produced exactly one
\* response, as its last step, and a 200 has gone through every step.
C9_FixedOrderOfSteps ==
    Gated =>
    /\ \A i, j \in 1..Len(trace) : i < j => Rank(trace[i]) < Rank(trace[j])
    /\ Did("body") => Did("header")
    /\ Did("requirements") => Did("header") /\ Did("body")
    /\ DidVerify => Did("requirements")
    /\ Did("generate") => DidVerify
    /\ Did("settle") => Did("generate")
    /\ Did("respond") <=> pc = "done"
    /\ pc = "done" <=> resp # NoResp
    /\ pc \notin {"idle", "extract", "done"} => Did("header")
    /\ resp.status = 200 =>
         Did("header") /\ Did("requirements") /\ DidVerify /\ Did("generate")

C9_Witness ==
    /\ pc = "done" /\ resp.status = 200
    /\ trace = <<"header", "body", "requirements", "verify-standard", "generate",
                 "settle", "respond">>

\* C7: /api/verify-payment answers verified = true only for a transaction that
\* exists, succeeded and paid the price of the named endpoint to the treasury.
C7_VerifiedOnlyIfPaid ==
    (req.endpoint = VerifyPayment /\ resp.status = 200 /\ resp.body.verified) =>
        /\ env.rpc.tx.found
        /\ ~env.rpc.tx.err
        /\ TreasuryListed(env.rpc.tx)
        /\ TreasuryDelta(env.rpc.tx) * 100 >= prices(req.body.endpoint) * 95

\* C8: the gated handlers keep nothing between requests. A request sent again and
\* given the same answers by the facilitator and the node ends with the same status
\* as before; and a header triple that was accepted once is accepted again by the
\* check of every later request that carries it, whatever its endpoint and body,
\* when the node returns the same transaction, and unlocks a render again whenever
\* that request finishes its other steps.
C8_SameRequestSameOutcome ==
    (kept.set /\ Gated) =>
        /\ (pc = "done" /\ req = kept.req /\ Answers(env) = kept.env)
              => (resp.status = kept.status /\ h.verified = kept.verified)
        /\ (KeptAccepted /\ SameProof(req, kept.req) /\ env.rpcCalled
              /\ env.rpc = kept.env.rpc)
              => /\ h.verified
                 /\ pc = "done" => resp.status \in {200, 500}
                 /\ (pc = "done" /\ ~generateUIThrows(h.config)) => resp.status = 200

C8_Witness ==
    /\ KeptAccepted /\ kept.status = 200
    /\ pc = "done" /\ SameProof(req, kept.req) /\ req.endpoint # kept.req.endpoint
    /\ env.rpc = kept.env.rpc /\ resp.status = 200

(***************************************************************************)
(* Properties of the 402 flow                                              *)
(***************************************************************************)
\* the retry was answered after the client received the terms of the endpoint and
\* a transfer of exactly the advertised price to the advertised payTo was
\* confirmed, and the node, when asked, returned that transfer
HonestRetryAnswered ==
    /\ cl.cpc = "idle" /\ cl.retried.status # 0
    /\ chain[cl.signature] = Transfer(cl.publicKey, payTo, prices(cl.endpoint), FALSE)
    /\ cl.retried.env.rpcCalled =>
         cl.retried.env.rpc = [threw |-> FALSE, tx |-> chain[cl.signature]]

\* onSuccess was called, once, with the body of the retry and the signature
Unlocked ==
    /\ cl.retried.status = 200
    /\ "ui" \in cl.retried.body.keys
    /\ cl.retried.body.ui =
         Generated(cl.endpoint, cl.componentType, cl.config, cl.retried.env.seed)
    /\ cl.callbacks = <<OnSuccess(cl.retried.body, cl.signature)>>
    /\ cl.lastSignature = cl.signature

\* onError was called, once, and onSuccess was not
Refused(status) ==
    /\ cl.retried.status = status
    /\ "ui" \notin cl.retried.body.keys
    /\ cl.callbacks = <<OnError("Failed to fetch after payment")>>

\* C5 as claimed, its safety part: the retry of an honest client is answered 200
\* with the ui payload and onSuccess gets that payload and the signature.
C5_HonestRetryUnlocks ==
    HonestRetryAnswered => Unlocked

\* the answer to the retry of an honest client, case by case
C5_AmendedOutcome ==
    HonestRetryAnswered =>
        IF cl.retried.env.requirements # "ok" THEN Refused(500)
        ELSE IF cl.publicKey = payTo THEN Refused(402)
        ELSE IF Generated(cl.endpoint, cl.componentType, cl.config, 0) = RangeError
        THEN Refused(500)
        ELSE Unlocked

\* the price of the 402 body the client holds is the amount the check expects
C5_AdvertisedIsEnforced ==
    cl.paymentRequired # NoBody =>
        cl.paymentRequired.price = ExpectedAmount(cl.endpoint)

\* C5 amended: when the client has received the 402 terms of the endpoint, a
\* transfer of exactly the advertised price to the advertised payTo is confirmed and
\* the retry carries the header triple, the retry is answered and handleRequest
\* ends; if the node returns that transfer, the answer is 200 with the ui payload
\* and onSuccess is called with that payload and the signature, provided
\* createPaymentRequirements returns (else 500), the paying wallet is not the
\* treasury (else 402) and the template can be generated (else 500); in the other
\* cases onError is called instead. The price of the 402 body is the price the
\* verification enforces.
C5_HonestClientUnlocks ==
    /\ [](C5_AmendedOutcome /\ C5_AdvertisedIsEnforced)
    /\ (cl.cpc = "retry") ~> (cl.cpc = "idle" /\ ~cl.loading)

C5_Witness ==
    /\ HonestRetryAnswered /\ Unlocked
    /\ cl.endpoint = PremiumUi /\ cl.retried.env.rpcCalled

(***************************************************************************)
(* Properties of the templates                                             *)
(***************************************************************************)
\* a template without what Math.random put into it: the rating of the items of
\* the advanced grid, the value and the status of the rows of the data table
WithoutDraws(ui) ==
    IF ui.type = "advanced-grid"
    THEN [ui EXCEPT !.layout.items =
             [i \in 1..Len(ui.layout.items) |-> [ui.layout.items[i] EXCEPT !.rating = 0]]]
    ELSE IF ui.type = "data-table"
    THEN [ui EXCEPT !.data =
             [i \in 1..Len(ui.data) |-> [ui.data[i] EXCEPT !.value = 0, !.status = ""]]]
    ELSE ui

\* C10 as claimed: two runs of generateUI or of generatePremiumUI on the same
\* arguments return equal results.
C10_TwoRunsEqual ==
    run.phase = "twice" => run.first = run.second

\* C10 amended: two runs of generateUI on the same arguments return equal results;
\* two runs of generatePremiumUI return results that are equal but for the rating of
\* the items of the advanced grid and the value and status of the rows of the data
\* table, which are drawn at random, and equal results for 'analytics'.
C10_TwoRunsEqualButForDraws ==
    run.phase = "twice" =>
        /\ run.endpoint = RenderUi => run.first = run.second
        /\ WithoutDraws(run.first) = WithoutDraws(run.second)
        /\ run.componentType = "analytics" => run.first = run.second

C10_Witness ==
    /\ run.phase = "twice" /\ run.endpoint = PremiumUi
    /\ run.first.type = "advanced-grid"
    /\ run.first # run.second
    /\ WithoutDraws(run.first) = WithoutDraws(run.second)

(***************************************************************************)
(* Properties of the prices                                                *)
(***************************************************************************)
\* C11: the price /api/premium-ui advertises in its 402 and enforces in its check
\* is strictly greater than the price /api/render-ui advertises and enforces.
C11_PremiumCostsMore ==
    (Gated /\ req.endpoint = PremiumUi /\ resp.status = 402 /\ HasTerms(resp.body)) =>
        /\ resp.body.price > AdvertisedPrice(RenderUi)
        /\ ExpectedAmount(PremiumUi) > ExpectedAmount(RenderUi)

(***************************************************************************)
(* Properties of fetchWithPayment                                          *)
(***************************************************************************)
PaymentHeaderNames == {"X-Payment-Signature", "X-Payment-PublicKey", "X-Payment-Timestamp"}

\* C12: when the first fetch is answered 402 and the handler returns a proof, one
\* retry of the same url and options is made with the three headers of the proof and
\* the caller's other headers, and its response is returned whatever its status; a
\* first response that is not 402 is returned and the handler is not called; at most
\* two fetches are made.
C12_RetriesOnceWithProof ==
    /\ Len(call.fetches) <= 2
    /\ call.handlerCalls <= 1
    /\ (call.fpc = "done" /\ call.answers # <<>> /\ call.answers[1] \notin {402, Rejected}) =>
         /\ call.ended = "returned" /\ call.returned = 1
         /\ Len(call.fetches) = 1 /\ call.handlerCalls = 0
    /\ (call.fpc = "done" /\ call.proof # NoProof) =>
         /\ Len(call.fetches) = 2
         /\ call.fetches[2].url = call.url
         /\ call.fetches[2].method = call.options.method
         /\ ProofHeaders(call.proof) \subseteq call.fetches[2].headers
         /\ \A x \in call.fetches[1].headers :
              x[1] \notin PaymentHeaderNames => x \in call.fetches[2].headers
         /\ call.answers[2] # Rejected => call.ended = "returned" /\ call.returned = 2

(***************************************************************************)
(* Properties of /api/verify-payment                                       *)
(***************************************************************************)
\* a field of the body is absent or empty
FieldMissing(body) ==
    body.kind # "object" \/ ~Truthy(body.signature) \/ ~Truthy(body.publicKey)
        \/ ~Truthy(body.endpoint)

\* C13: /api/verify-payment maps a request to exactly one outcome: 500 'Verification
\* failed' for an unparsable body; 400 'Missing required fields' when signature,
\* publicKey or endpoint is absent or empty; otherwise 400 'Invalid endpoint' when
\* endpoint is not a key of the price table; otherwise 200 with verified = true and
\* the signature when verifyPaymentTransaction returns true, else 402 with verified =
\* false, also when the RPC call failed. The two 400 outcomes make no RPC call.
C13_OneOutcomePerRequest ==
    (req.endpoint = VerifyPayment /\ pc = "done") =>
        IF req.body.kind = "invalid"
        THEN resp = ErrorResponse(500, "Verification failed")
        ELSE IF FieldMissing(req.body)
        THEN resp = ErrorResponse(400, "Missing required fields") /\ ~env.rpcCalled
        ELSE IF req.body.endpoint \notin PriceKeys
        THEN resp = ErrorResponse(400, "Invalid endpoint") /\ ~env.rpcCalled
        ELSE /\ env.rpcCalled
             /\ IF verifyPaymentTransaction(env.rpc, prices(req.body.endpoint), payTo)
                THEN resp = VerifiedResponse(req.body.signature)
                ELSE resp = NotVerifiedResponse
             /\ env.rpc.threw => resp.status = 402

(***************************************************************************)
(* Properties of the two verification paths                                *)
(***************************************************************************)
\* C14: a request is verified by one path only and the standard header goes first:
\* when extractPayment returned a header, x402.verifyPayment alone decides, the node
\* is not asked, and a failed standard verification ends with 402 even if a valid
\* custom triple came along; the custom path is taken only without a standard header.
C14_StandardHeaderFirst ==
    Gated =>
        /\ ~(Did("verify-standard") /\ Did("verify-custom"))
        /\ Truthy(h.paymentHeader) =>
             /\ ~env.rpcCalled /\ ~Did("verify-custom")
             /\ Did("verify-standard") /\ env.verify # "throws"
                  => h.verified = (env.verify = "valid")
             /\ (pc = "done" /\ env.verify = "invalid") => resp = VerificationFailedResponse
        /\ env.rpcCalled =>
             /\ ~Truthy(req.xPayment) /\ hasCustomPayment(req)
             /\ env.verify = "-" /\ ~Did("verify-standard")

C14_Witness ==
    /\ Gated /\ pc = "done" /\ Truthy(req.xPayment)
    /\ req.sig = "sigPaid500000" /\ req.pub = WalletKey /\ Truthy(req.ts)
    /\ env.verify = "invalid" /\ resp.status = 402

(***************************************************************************)
(* Properties of the settlement                                            *)
(***************************************************************************)
\* x402.settlePayment was called in this request
Settled == env.settle # "-"

\* how often a step was run
Times(step) == Cardinality({i \in 1..Len(trace) : trace[i] = step})

\* what holds of the settlement whenever it happens
SettlementInPlace ==
    /\ Times("settle") <= 1
    /\ Settled <=> Did("settle")
    /\ Settled => /\ Did("verify-standard") /\ h.verified /\ Did("generate")
                  /\ ~env.rpcCalled /\ ~Did("verify-custom")
    /\ \A i, j \in 1..Len(trace) :
         (trace[i] = "settle" /\ trace[j] \in {"verify-standard", "generate"}) => j < i
    /\ env.settle = "throws" =>
         /\ pc = "done" /\ resp = InternalErrorResponse /\ "ui" \notin resp.body.keys
    /\ (resp.status = 200 /\ Truthy(h.paymentHeader)) => env.settle = "ok"
    /\ (resp.status = 200 /\ Settled) => trace[Len(trace) - 1] = "settle"

ThrewInCustomVerification ==
    /\ env.rpcCalled
    /\ \/ env.rpc.threw
       \/ /\ env.rpc.tx.found /\ ~(env.rpc.tx.hasMeta /\ env.rpc.tx.err)
          /\ ~IsPublicKey(req.pub)

\* an exception was raised elsewhere in the handler
ThrewElsewhere ==
    \/ Did("body") /\ req.body.kind # "object"
    \/ env.requirements = "throws"
    \/ env.verify = "throws"
    \/ env.settle = "throws"
    \/ Did("generate") /\ h.ui = NoUI

\* C16: an exception raised while verifying on the custom path is caught there and
\* the request ends with 402 'Invalid payment - verification failed'; an exception
\* raised elsewhere (the body, createPaymentRequirements, x402.verifyPayment, the
\* generator, x402.settlePayment) ends it with 500 'Internal server error'; neither
\* response carries a ui, and an unpaid request with an unparsable body gets 500.
C16_ErrorOutcomes ==
    (Gated /\ pc = "done") =>
        /\ ThrewElsewhere =>
             /\ resp.status = 500 /\ resp.body.error = "Internal server error"
             /\ resp.body.keys = {"error"}
        /\ (ThrewInCustomVerification /\ ~ThrewElsewhere) =>
             /\ resp.status = 402
             /\ resp.body.error = "Invalid payment - verification failed"
             /\ resp.body.keys = {"error"}
        /\ ThrewInCustomVerification => ~h.verified /\ "ui" \notin resp.body.keys
        /\ (NoPaymentSent(req) /\ req.body.kind = "invalid") => resp.status = 500
        /\ resp.status = 500 => ThrewElsewhere

C16_Witness ==
    /\ Gated /\ pc = "done" /\ env.rpcCalled /\ env.rpc.threw
    /\ req.sig = "sigPaid500000" /\ resp.status = 402

(***************************************************************************)
(* Properties of an incomplete proof                                       *)
(***************************************************************************)
\* no standard header, and one of the three custom headers missing or empty
IncompleteProof(r) ==
    /\ ~Truthy(r.xPayment)
    /\ ~Truthy(r.sig) \/ ~Truthy(r.pub) \/ ~Truthy(r.ts)

\* C17 as claimed: a request with an incomplete custom proof is answered 402 with the
\* payment terms, and no RPC lookup is made.
C17_IncompleteProofGets402 ==
    (Gated /\ pc = "done" /\ IncompleteProof(req)) =>
        /\ IsPaymentRequired(req, resp)
        /\ ~env.rpcCalled

\* C17 amended: a request with no standard header and an incomplete custom proof is
\* answered exactly as a request with no payment headers at all: with the 402 that
\* carries the payment terms when its body is a JSON value other than null and
\* createPaymentRequirements returns, with 500 otherwise; the node is not asked and
\* nothing is verified, even when the signature header names a paying transaction.
C17_IncompleteProofIsNoPayment ==
    (Gated /\ pc = "done" /\ IncompleteProof(req)) =>
        /\ ~env.rpcCalled /\ env.verify = "-" /\ ~DidVerify /\ ~h.verified
        /\ IF req.body.kind = "object" /\ env.requirements = "ok"
           THEN IsPaymentRequired(req, resp)
                  /\ resp = PaymentRequiredResponse(req.endpoint)
           ELSE resp.status = 500 /\ resp.body.keys = {"error"}

C17_Witness ==
    /\ Gated /\ pc = "done" /\ IncompleteProof(req)
    /\ req.sig = "sigPaid500000" /\ req.pub = WalletKey /\ req.ts = ""
    /\ resp.status = 402 /\ HasTerms(resp.body)

(***************************************************************************)
(* Properties of pairs of requests                                         *)
(***************************************************************************)
\* the request at hand has ended and was given the answers the kept one was given
PairAnswered ==
    /\ kept.set /\ Gated /\ pc = "done"
    /\ Answers(env) = kept.env

SameOutcomeAsKept == resp.status = kept.status /\ h.verified = kept.verified

\* C18: on the custom path the decision does not depend on the timestamp nor, among
\* well-formed public keys, on the public key: two requests that differ only in
\* X-Payment-Timestamp, or only in X-Payment-PublicKey, and are given the same
\* answers end with the same status; an ill-formed key in place of a well-formed one
\* turns an accepted payment into the 402 of a failed verification and changes
\* nothing else; the key need not be the signer of the transaction.
C18_TimestampAndKeyDoNotDecide ==
    PairAnswered =>
        /\ OnlyTimestampDiffers(req, kept.req) => SameOutcomeAsKept
        /\ (OnlyPublicKeyDiffers(req, kept.req)
              /\ IsPublicKey(req.pub) /\ IsPublicKey(kept.req.pub)) => SameOutcomeAsKept
        /\ (OnlyPublicKeyDiffers(req, kept.req)
              /\ ~IsPublicKey(req.pub) /\ IsPublicKey(kept.req.pub)) =>
             /\ ~h.verified
             /\ resp.status = IF kept.verified THEN 402 ELSE kept.status

C18_Witness ==
    /\ PairAnswered /\ OnlyPublicKeyDiffers(req, kept.req)
    /\ kept.status = 200 /\ resp.status = 200
    /\ env.rpcCalled /\ env.rpc.tx.found
    /\ req.pub = OtherKey /\ env.rpc.tx.accountKeys[1] # OtherKey

ExpectedType(endpoint, componentType) ==
    IF endpoint = RenderUi
    THEN IF componentType \in {"grid", "card", "dashboard"} THEN componentType ELSE "grid"
    ELSE IF componentType \in {"advanced-grid", "data-table"} THEN componentType
    ELSE IF componentType = "analytics" THEN "analytics-dashboard"
    ELSE "advanced-grid"

\* the number of items the claim expects in a grid
ExpectedItems(endpoint, config) ==
    IF config.itemCount \in {NoNum, Num(0)}
    THEN IF endpoint = RenderUi THEN 6 ELSE 12
    ELSE config.itemCount[1]

\* C20: template selection is total: the generator returns the template of the
\* componentType for the keys it knows and the (advanced) grid template for every
\* other or missing componentType, never an error and never nothing; a grid holds
\* itemCount items with the ids 1..itemCount, or the default 6 (basic) / 12 (premium)
\* when itemCount is absent or 0.
C20_SelectionTotal ==
    run.phase \in {"once", "twice"} =>
        /\ run.first.type = ExpectedType(run.endpoint, run.componentType)
        /\ run.first.type \in {"grid", "advanced-grid"} =>
             /\ Len(run.first.layout.items) = ExpectedItems(run.endpoint, run.config)
             /\ \A i \in 1..Len(run.first.layout.items) : run.first.layout.items[i].id = i

\* ---------------------------------------------------------------------------
\* Properties of the button
\* ---------------------------------------------------------------------------

\* a run of handleRequest is under way
Running == cl.cpc \in {"first", "wallet", "confirming", "retry"}

\* C21: whenever handleRequest has set loading, the run ends (every awaited
\* call settles) and loading is false again; loading is true only while a run
\* is under way, so the button is enabled whenever no run is under way.
C21_LoadingIsReset ==
    /\ [](cl.loading <=> Running)
    /\ cl.loading ~> (~cl.loading /\ cl.cpc = "idle")

\* a run that paid and then failed has ended with loading false
C21_Witness ==
    /\ cl.clicks > 0
    /\ cl.connected
    /\ cl.sent # <<>>
    /\ cl.callbacks # <<>>
    /\ cl.callbacks[1].kind = "onError"
    /\ ~cl.loading

\* the payTo of a 402 body that processPayment refuses: missing, empty, blank or
\* not the encoding of a key
RefusedPayTo == {Absent, "", " ", BadKey}

\* C22: in a run of handleRequest, sendTransaction is called at most once, only
\* after a first answer of 402, only with a connected wallet, only with a payTo
\* in the 402 body that is non-empty and a well-formed key; the transfer it is
\* given moves the price of the 402 body from the wallet to the payTo of the
\* 402 body. After a 402 with an empty or ill-formed payTo, no transaction is
\* sent and the run ends with one call of onError.
C22_PaysOnceAfterValidation ==
    /\ Len(cl.sent) <= 1
    /\ cl.sent # <<>> =>
          /\ cl.first = 402
          /\ cl.connected /\ cl.publicKey # Absent
          /\ cl.terms.payTo \notin RefusedPayTo
          /\ cl.sent[1] = [from |-> cl.publicKey, to |-> cl.terms.payTo,
                           lamports |-> cl.terms.price]
    /\ (cl.first = 402 /\ cl.terms.payTo \in RefusedPayTo) =>
          /\ cl.sent = <<>>
          /\ cl.cpc = "idle"
          /\ Len(cl.callbacks) = 1
          /\ cl.callbacks[1].kind = "onError"
    /\ cl.cpc \in {"confirming", "retry"} => Len(cl.sent) = 1
    /\ \A signature \in ClientSigs :
         chain[signature].found =>
            \E to \in PublicKeys, lamports \in {250000, 500000} :
               chain[signature] \in {Transfer(cl.publicKey, to, lamports, failed) :
                                        failed \in BOOLEAN}

\* a transfer of the price of an external 402 to its payTo was handed to the wallet
C22_Witness ==
    /\ cl.first = 402
    /\ cl.terms.payTo = OtherKey
    /\ cl.sent = <<[from |-> cl.publicKey, to |-> OtherKey, lamports |-> 250000]>>
    /\ cl.cpc = "confirming"

\* the retry of the current run was answered, and not with a 2xx
RetryRefused == cl.retried.status # 0 /\ cl.retried.status \notin 200..299

\* the fetches of a run: the first without proof, then at most one retry, made
\* once confirmTransaction has returned, with the proof of the transaction of
\* this run and the method and body of the first
RetriedOnceWithProof ==
    /\ Len(cl.fetches) <= 2
    /\ cl.confirmed <=> Len(cl.fetches) = 2
    /\ cl.fetches # <<>> =>
          /\ cl.fetches[1].sig = Absent
          /\ cl.fetches[1].pub = Absent
          /\ cl.fetches[1].ts = Absent
    /\ Len(cl.fetches) = 2 =>
          /\ Len(cl.sent) = 1
          /\ cl.signature \in ClientSigs
          /\ cl.fetches[2].sig = cl.signature
          /\ cl.fetches[2].pub = cl.publicKey
          /\ cl.fetches[2].ts # Absent
          /\ cl.fetches[2].endpoint = cl.fetches[1].endpoint
          /\ cl.fetches[2].method = cl.fetches[1].method
          /\ cl.fetches[2].body = cl.fetches[1].body
    /\ (cl.cpc = "retry" /\ cl.delivered) =>
          /\ req.sig = cl.signature
          /\ req.pub = cl.publicKey
          /\ req.ts # Absent
          /\ req.xPayment = Absent
          /\ req.endpoint = cl.endpoint
          /\ req.body = cl.fetches[1].body

\* a refused retry ends the run: one onError with the message of line 187
RefusedRetryEndsRun ==
    RetryRefused =>
       /\ cl.cpc = "idle"
       /\ Len(cl.fetches) = 2
       /\ cl.callbacks = <<OnError("Failed to fetch after payment")>>
       /\ cl.lastSignature # cl.signature

\* lastSignature changes only when a retry was answered with a 2xx
LastSignatureKept ==
    cl'.lastSignature # cl.lastSignature =>
       /\ cl.cpc = "retry"
       /\ cl'.retried.status \in 200..299
       /\ cl'.lastSignature = cl.signature

\* a click starts with a fetch without proof and nothing sent; the signature
\* a run uses is the one of a transaction that was not on the ledger before
FreshFlow ==
    /\ (cl.cpc = "idle" /\ cl'.cpc = "first") =>
          /\ cl'.fetches = <<[endpoint |-> cl.endpoint, method |-> Method(cl.endpoint),
                              sig |-> Absent, pub |-> Absent, ts |-> Absent,
                              body |-> FetchBody(cl)]>>
          /\ cl'.sent = <<>>
          /\ cl'.signature = Absent
    /\ (cl.cpc = "wallet" /\ cl'.cpc = "confirming") =>
          /\ ~chain[cl'.signature].found
          /\ cl'.signature # cl.lastSignature

\* C23: once confirmTransaction has returned the button retries the request
\* exactly once, with the signature of the transaction, the key of the wallet
\* and a timestamp, and with the method and body of the first attempt; no
\* retry is made before. A retry that is not answered with a 2xx ends the run
\* with onError('Failed to fetch after payment') and no further retry,
\* lastSignature keeps its value, and the next click starts a flow without
\* proof that pays with a new transaction.
C23_RetriesOnceThenStartsAfresh ==
    /\ [](RetriedOnceWithProof /\ RefusedRetryEndsRun)
    /\ [][LastSignatureKept /\ FreshFlow]_vars
    /\ (cl.cpc = "confirming") ~> (cl.cpc = "idle")

\* the second click pays again after the paid retry of the first click was refused
C23_Witness ==
    /\ cl.clicks = 2
    /\ cl.cpc = "retry"
    /\ cl.lastSignature = ""
    /\ chain["sigClient1"].found
    /\ cl.signature = "sigClient2"
    /\ Len(cl.fetches) = 2

\* a run of handleRequest has ended
RunEnded == cl.clicks > 0 /\ cl.connected /\ cl.cpc = "idle"

\* the last answer of the run was a 2xx: the first one, or the one to the paid retry
AnsweredOk ==
    IF Len(cl.fetches) = 2 THEN cl.retried.status \in 200..299
    ELSE cl.first \in 200..299

====
